---- MODULE Spec2Model ----
(***************************************************************************)
(* State-machine model of framework/src/utils/FunctionParserUtils.C:       *)
(* the FunctionParserUtils constructor (feature flags), the methods        *)
(* setParserFeatureFlags and evaluate, and addFParserConstants (ordered    *)
(* resolution of named constants).                                         *)
(*                                                                         *)
(* The FParser object (ADFunction) is a library outside this file.  It is  *)
(* modelled by what the calls made on it return to this file: AddConstant  *)
(* accepts or rejects a name (either outcome is possible), Parse and Eval  *)
(* work on a small expression language of token sequences, and the error   *)
(* code reported after evaluating a host expression is any small integer.  *)
(* Reals are modelled by integers; mooseError ends the operation and its   *)
(* message is the sequence of the arguments it was given.                  *)
(***************************************************************************)
EXTENDS Integers, Sequences, FiniteSets, TLC

(* ---------------- bounds of the model ---------------- *)

\* longest constant_names / constant_expressions vector
MaxConst == 3

\* error codes the library may report after Eval reach CodeMargin below and
\* above the indices of the message table
CodeMargin == 2

\* results a host expression may evaluate to range over 0..MaxResult
MaxResult == 1

(* ---------------- values ---------------- *)

Names == {"a", "b", "c"}

Numerals == {"0", "1", "2", "3"}

Operators == {"+", "*", "/"}

\* the expression texts offered to addFParserConstants, as token sequences
ExprTexts ==
  { <<"2">>, <<"a", "*", "3">>, <<"a", "+", "b">>, <<"1", "/", "0">>, <<"2", "+">> }

SeqsUpTo(S, n) == UNION { [1..k -> S] : k \in 0..n }

\* a Real: a number, or the quiet NaN
Num(v) == [nan |-> FALSE, v |-> v]

\* line 62: _nan(std::numeric_limits<Real>::quiet_NaN())
_nan == [nan |-> TRUE, v |-> 0]

NumeralValue(t) ==
  CASE t = "0" -> 0 [] t = "1" -> 1 [] t = "2" -> 2 [] t = "3" -> 3 [] OTHER -> 0

(* ---------------- settings and construction ---------------- *)

\* InputParameters as read by the constructor; jit_valid is
\* isParamValid("enable_jit")
Settings ==
  [ jit_valid : BOOLEAN, enable_jit : BOOLEAN, enable_ad_cache : BOOLEAN,
    enable_auto_optimize : BOOLEAN, disable_fpoptimizer : BOOLEAN,
    fail_on_evalerror : BOOLEAN ]

JitWarning == "Tried to enable FParser JIT but libmesh does not have it compiled in."

\* the object before its constructor has run
Unbuilt ==
  [ _enable_jit |-> FALSE, _enable_ad_cache |-> FALSE, _disable_fpoptimizer |-> FALSE,
    _enable_auto_optimize |-> FALSE, _fail_on_evalerror |-> FALSE ]

\* mutant: auto-optimize copied from the request, the optimizer switch ignored
AutoOptimizeCopied(p, disable) == p.enable_auto_optimize

\* line 60: enable_auto_optimize && !_disable_fpoptimizer
AutoOptimizeInit(p, disable) == p.enable_auto_optimize /\ ~disable

\* mutant: the fallback warns but leaves _enable_jit set
JitFallbackKeeps(jit, have) == jit

\* lines 64-70: without JIT support a requested JIT is switched off
JitFallback(jit, have) == IF ~have /\ jit THEN FALSE ELSE jit

\* lines 64-67: the warning of the fallback
JitWarns(jit, have) == IF ~have /\ jit THEN <<JitWarning>> ELSE <<>>

\* lines 56-71: the constructor; have is LIBMESH_HAVE_FPARSER_JIT
Ctor(p, have) ==
  LET jit == p.jit_valid /\ p.enable_jit
      dis == p.disable_fpoptimizer
  IN  [ obj |-> [ _enable_jit |-> JitFallback(jit, have),
                  _enable_ad_cache |-> p.enable_ad_cache,
                  _disable_fpoptimizer |-> dis,
                  _enable_auto_optimize |-> AutoOptimizeInit(p, dis),
                  _fail_on_evalerror |-> p.fail_on_evalerror ],
        warned |-> JitWarns(jit, have) ]

\* an FParser object: its AD flags, the constants added to it, the text it
\* parsed (parsed = TRUE once Parse succeeded) and its last evaluation error
NoParser ==
  [ null |-> TRUE, ADCacheDerivatives |-> FALSE, ADAutoOptimize |-> FALSE,
    consts |-> <<>>, parsed |-> FALSE, text |-> <<>>, evalError |-> 0 ]

\* line 120: new ADFunction()
NewADFunction == [NoParser EXCEPT !.null = FALSE]

\* lines 73-78: setParserFeatureFlags
SetParserFeatureFlags(obj, p) ==
  [p EXCEPT !.ADCacheDerivatives = obj._enable_ad_cache,
            !.ADAutoOptimize = obj._enable_auto_optimize]

(* ---------------- the FParser library, as this file uses it ---------------- *)

\* a part of a message: literal text or an expression text, both as token
\* sequences
Lit(s) == <<s>>

\* the value of the constant called n: the entry added last wins
ConstantValue(consts, n) ==
  LET hits == { k \in 1..Len(consts) : consts[k][1] = n }
  IN  consts[CHOOSE k \in hits : \A m \in hits : m <= k][2]

IsOperand(consts, t) ==
  t \in Numerals \/ \E k \in 1..Len(consts) : consts[k][1] = t

\* line 131: expression->Parse(text, ""): -1 when the text parses, else the
\* position (from 0) of the token that stops the parser; an identifier is
\* known only if AddConstant added it, the variable list being empty
Parse(consts, text) ==
  IF Len(text) = 0 THEN 0
  ELSE IF ~IsOperand(consts, text[1]) THEN 0
  ELSE IF Len(text) = 1 THEN -1
  ELSE IF text[2] \notin Operators THEN 1
  ELSE IF Len(text) = 2 THEN 2
  ELSE IF ~IsOperand(consts, text[3]) THEN 2
  ELSE IF Len(text) = 3 THEN -1
  ELSE 3

\* line 135: expression->ErrorMsg() after a failed Parse
ErrorMsg(consts, text) ==
  LET at == Parse(consts, text)
  IN  IF at < Len(text) /\ text[at + 1] \in Names
      THEN "Syntax error: Unknown identifier"
      ELSE "Syntax error"

OperandValue(consts, t) ==
  IF t \in Numerals THEN NumeralValue(t) ELSE ConstantValue(consts, t)

\* line 137: expression->Eval(NULL): the value, and the evaluation error the
\* object remembers (1 = division by zero, the value then being 0)
Eval(e) ==
  IF ~e.parsed THEN [v |-> 0, code |-> 0]
  ELSE IF Len(e.text) = 1 THEN [v |-> OperandValue(e.consts, e.text[1]), code |-> 0]
  ELSE LET x == OperandValue(e.consts, e.text[1])
           y == OperandValue(e.consts, e.text[3])
       IN  CASE e.text[2] = "+" -> [v |-> x + y, code |-> 0]
             [] e.text[2] = "*" -> [v |-> x * y, code |-> 0]
             [] OTHER -> IF y = 0 THEN [v |-> 0, code |-> 1]
                         ELSE [v |-> x \div y, code |-> 0]

(* ---------------- evaluate ---------------- *)

\* lines 48-54
_eval_error_msg ==
  << "Unknown",
     "Division by zero",
     "Square root of a negative value",
     "Logarithm of negative value",
     "Trigonometric error (asin or acos of illegal value)",
     "Maximum recursion level reached" >>

\* mutant: off by one at the upper end of the table
ErrorIndexShort(error_code) ==
  IF error_code < 0 \/ error_code >= 5 THEN 0 ELSE error_code

\* line 100: (error_code < 0 || error_code > 5) ? 0 : error_code
ErrorIndex(error_code) ==
  IF error_code < 0 \/ error_code > 5 THEN 0 ELSE error_code

NoValue == [has |-> FALSE, nan |-> FALSE, v |-> 0]

Returned(r) == [has |-> TRUE, nan |-> r.nan, v |-> r.v]

\* the activation of evaluate: where it is, its argument, its locals, what it
\* returned or reported, and the calls it has made on the parser
IdleEval ==
  [ pc |-> "idle", null |-> FALSE, _func_params |-> 0, result |-> 0, error_code |-> 0,
    ret |-> NoValue, error |-> <<>>, nEval |-> 0, nEvalError |-> 0 ]

\* mutant: the null shortcut removed, the expression is evaluated anyway
EvaluateEnterNoShortcut(null, fp) ==
  [IdleEval EXCEPT !.pc = "eval", !.null = null, !._func_params = fp]

\* lines 81-85: a null pointer returns 0.0 at once
EvaluateEnter(null, fp) ==
  IF null
  THEN [IdleEval EXCEPT !.pc = "returned", !.null = TRUE, !._func_params = fp,
                        !.ret = Returned(Num(0))]
  ELSE [IdleEval EXCEPT !.pc = "eval", !.null = FALSE, !._func_params = fp]

\* lines 93-102
EvaluateDecide(self, e) ==
  IF e.error_code = 0
  THEN [e EXCEPT !.pc = "returned", !.ret = Returned(Num(e.result))]
  ELSE IF self._fail_on_evalerror
  THEN [e EXCEPT !.pc = "failed",
                 !.error = << Lit("DerivativeParsedMaterial function evaluation encountered an error: "),
                              Lit(_eval_error_msg[ErrorIndex(e.error_code) + 1]) >>]
  ELSE [e EXCEPT !.pc = "returned", !.ret = Returned(_nan)]

(* ---------------- addFParserConstants ---------------- *)

\* one call made on an FParser object for entry i: "new", "addPrevious" (an
\* accepted AddConstant on the temporary expression), "parse" (v is what
\* Parse returned), "eval" (v is the value), "add" (an accepted AddConstant
\* on the caller's expression)
Event(op, i, name, v) == [op |-> op, i |-> i, name |-> name, v |-> v]

\* the activation of addFParserConstants: its arguments (parser is the
\* caller's expression), its locals, the step that ended it with a fatal
\* error and the message of that error, and the record of the calls it has
\* made so far
EnterCall(names, exprs) ==
  [ pc |-> "entry", parser |-> NewADFunction,
    constant_names |-> names, constant_expressions |-> exprs,
    nconst |-> 0, constant_values |-> <<>>, i |-> 0, j |-> 0,
    expression |-> NoParser, at |-> "", error |-> <<>>, log |-> <<>> ]

IdleCall == [EnterCall(<<>>, <<>>) EXCEPT !.pc = "idle"]

\* mooseError: the operation ends here
Fail(st, where, msg) == [st EXCEPT !.pc = "failed", !.at = where, !.error = msg]

\* line 118: i < nconst
LoopHead(st) ==
  IF st.i < st.nconst THEN [st EXCEPT !.pc = "new"] ELSE [st EXCEPT !.pc = "done"]

\* mutant: only too many expressions are noticed
LengthsDifferOneWay(names, nconst) == nconst > Len(names)

\* line 112: nconst != constant_names.size()
LengthsDiffer(names, nconst) == nconst # Len(names)

\* lines 111-118
CheckLengths(self, st) ==
  LET n == Len(st.constant_expressions)
  IN  IF LengthsDiffer(st.constant_names, n)
      THEN Fail([st EXCEPT !.nconst = n], "lengths",
                << Lit("The parameter vectors constant_names and constant_values must have equal length.") >>)
      ELSE LoopHead([st EXCEPT !.nconst = n,
                               !.constant_values = [k \in 1..n |-> 0],
                               !.i = 0])

\* lines 120-123 and the head of the loop of line 126
NewExpression(self, st) ==
  [st EXCEPT !.expression = SetParserFeatureFlags(self, NewADFunction),
             !.j = 0,
             !.pc = "inject",
             !.log = Append(@, Event("new", st.i, "", 0))]

\* mutant: the constant being defined is added to its own expression
InnerLoopCondInclusive(st) == st.j <= st.i

\* line 126: j < i
InnerLoopCond(st) == st.j < st.i

\* lines 127-128; ok is what expression->AddConstant returns
AddPrevious(self, st, ok) ==
  LET name == st.constant_names[st.j + 1]
      v == st.constant_values[st.j + 1]
  IN  IF ok
      THEN [st EXCEPT !.expression.consts = Append(@, <<name, v>>),
                      !.j = st.j + 1,
                      !.log = Append(@, Event("addPrevious", st.i, name, v))]
      ELSE Fail(st, "addPrevious", << Lit("Invalid constant name in ParsedMaterialHelper") >>)

\* mutant: only a failure after the first token is noticed
ParseFailedLate(at) == at > 0

\* line 131: Parse(...) >= 0
ParseFailed(at) == at >= 0

\* lines 131-135
ParseExpression(self, st) ==
  LET text == st.constant_expressions[st.i + 1]
      at == Parse(st.expression.consts, text)
      tried == [st EXCEPT !.log = Append(@, Event("parse", st.i, "", at))]
  IN  IF ParseFailed(at)
      THEN Fail(tried, "parse",
                << Lit("Invalid constant expression\n"), text,
                   Lit("\n in parsed function object.\n"),
                   Lit(ErrorMsg(st.expression.consts, text)) >>)
      ELSE [tried EXCEPT !.expression.parsed = (at < 0),
                         !.expression.text = text,
                         !.pc = "eval"]

\* mutant: the constant is evaluated the way evaluate() does it, failing on
\* an evaluation error when _fail_on_evalerror is set
EvalConstantChecked(self, st) ==
  LET r == Eval(st.expression)
  IN  IF r.code # 0 /\ self._fail_on_evalerror
      THEN Fail([st EXCEPT !.expression.evalError = r.code], "eval",
                << Lit("DerivativeParsedMaterial function evaluation encountered an error: "),
                   Lit(_eval_error_msg[ErrorIndex(r.code) + 1]) >>)
      ELSE [st EXCEPT !.constant_values[st.i + 1] = r.v,
                      !.expression.evalError = r.code,
                      !.pc = "add",
                      !.log = Append(@, Event("eval", st.i, st.constant_names[st.i + 1], r.v))]

\* line 137: constant_values[i] = expression->Eval(NULL)
EvalConstant(self, st) ==
  LET r == Eval(st.expression)
  IN  [st EXCEPT !.constant_values[st.i + 1] = r.v,
                 !.expression.evalError = r.code,
                 !.pc = "add",
                 !.log = Append(@, Event("eval", st.i, st.constant_names[st.i + 1], r.v))]

\* mutant: the constant is never handed to the caller's expression
AddToTargetSkipped(self, st, ok) == LoopHead([st EXCEPT !.i = st.i + 1])

\* lines 139-141 and ++i; ok is what parser->AddConstant returns
AddToTarget(self, st, ok) ==
  LET name == st.constant_names[st.i + 1]
      v == st.constant_values[st.i + 1]
  IN  IF ok
      THEN LoopHead([st EXCEPT !.parser.consts = Append(@, <<name, v>>),
                               !.log = Append(@, Event("add", st.i, name, v)),
                               !.i = st.i + 1])
      ELSE Fail(st, "add", << Lit("Invalid constant name in parsed function object") >>)

\* lines 105-142: the step the call takes from where it is
ResolveStep(self, st, ok) ==
  CASE st.pc = "entry" -> CheckLengths(self, st)
    [] st.pc = "new" -> NewExpression(self, st)
    [] st.pc = "inject" -> IF InnerLoopCond(st) THEN AddPrevious(self, st, ok)
                           ELSE ParseExpression(self, st)
    [] st.pc = "eval" -> EvalConstant(self, st)
    [] st.pc = "add" -> AddToTarget(self, st, ok)
    [] OTHER -> st

\* the same object with the opposite _fail_on_evalerror
Twin(self) == [self EXCEPT !._fail_on_evalerror = ~@]

(* ---------------- state ---------------- *)

VARIABLES
  params,     \* the InputParameters given to the constructor
  haveJit,    \* LIBMESH_HAVE_FPARSER_JIT of this build
  pc,         \* "new" before the constructor, then "ready", "flagged"
  this,       \* the FunctionParserUtils object
  warnings,   \* what mooseWarning has reported
  parser,     \* a host expression handed to setParserFeatureFlags / evaluate
  ev,         \* the activation of evaluate
  call,       \* the activation of addFParserConstants
  twin        \* the same call with the same arguments and the same answers
              \* from AddConstant, made on Twin(this)

vars == <<params, haveJit, pc, this, warnings, parser, ev, call, twin>>

ErrorCodes == (0 - CodeMargin)..(Len(_eval_error_msg) - 1 + CodeMargin)

HostParsers ==
  { [NewADFunction EXCEPT !.ADCacheDerivatives = c, !.ADAutoOptimize = o] :
      c \in BOOLEAN, o \in BOOLEAN }

Built(p, h) ==
  /\ params = p
  /\ haveJit = h
  /\ pc = "ready"
  /\ this = Ctor(p, h).obj
  /\ warnings = Ctor(p, h).warned

(* ---------------- construction and feature flags ---------------- *)

InitFlags ==
  /\ params \in Settings
  /\ haveJit \in BOOLEAN
  /\ pc = "new"
  /\ this = Unbuilt
  /\ warnings = <<>>
  /\ parser \in HostParsers
  /\ ev = IdleEval
  /\ call = IdleCall
  /\ twin = IdleCall

\* lines 56-71
Construct ==
  /\ pc = "new"
  /\ this' = Ctor(params, haveJit).obj
  /\ warnings' = warnings \o Ctor(params, haveJit).warned
  /\ pc' = "ready"
  /\ UNCHANGED <<params, haveJit, parser, ev, call, twin>>

\* lines 73-78
ApplyFeatureFlags ==
  /\ pc = "ready"
  /\ ~parser.null
  /\ parser' = SetParserFeatureFlags(this, parser)
  /\ pc' = "flagged"
  /\ UNCHANGED <<params, haveJit, this, warnings, ev, call, twin>>

NextFlags == Construct \/ ApplyFeatureFlags

SpecFlags == InitFlags /\ [][NextFlags]_vars

(* ---------------- evaluate ---------------- *)

InitEval ==
  /\ \E p \in Settings, h \in BOOLEAN : Built(p, h)
  /\ parser = NoParser
  /\ ev = IdleEval
  /\ call = IdleCall
  /\ twin = IdleCall

\* lines 81-85: evaluate is called with a null or a parsed expression
EvaluateCall ==
  /\ ev.pc \in {"idle", "returned"}
  /\ \E null \in BOOLEAN, fp \in 0..MaxResult :
       /\ parser' = IF null THEN NoParser ELSE [NewADFunction EXCEPT !.parsed = TRUE]
       /\ ev' = EvaluateEnter(null, fp)
  /\ UNCHANGED <<params, haveJit, pc, this, warnings, call, twin>>

\* line 88: parser->Eval(_func_params.data()); the library computes a result
\* and remembers its evaluation error
EvaluateEval ==
  /\ ev.pc = "eval"
  /\ \E r \in 0..MaxResult, c \in ErrorCodes :
       /\ parser' = [parser EXCEPT !.evalError = c]
       /\ ev' = [ev EXCEPT !.result = r, !.nEval = @ + 1, !.pc = "query"]
  /\ UNCHANGED <<params, haveJit, pc, this, warnings, call, twin>>

\* line 91: parser->EvalError()
EvaluateEvalError ==
  /\ ev.pc = "query"
  /\ ev' = [ev EXCEPT !.error_code = parser.evalError, !.nEvalError = @ + 1,
                      !.pc = "decide"]
  /\ UNCHANGED <<params, haveJit, pc, this, warnings, parser, call, twin>>

\* lines 93-102
EvaluateReturn ==
  /\ ev.pc = "decide"
  /\ ev' = EvaluateDecide(this, ev)
  /\ UNCHANGED <<params, haveJit, pc, this, warnings, parser, call, twin>>

NextEval == EvaluateCall \/ EvaluateEval \/ EvaluateEvalError \/ EvaluateReturn

SpecEval == InitEval /\ [][NextEval]_vars

(* ---------------- addFParserConstants ---------------- *)

\* the settings the calls are checked with: enable_jit, enable_ad_cache
\* and disable_fpoptimizer at their defaults of lines 21-35 (a build without
\* JIT), enable_auto_optimize and fail_on_evalerror free
CallSettings ==
  { p \in Settings : /\ p.jit_valid /\ ~p.enable_jit
                     /\ p.enable_ad_cache /\ ~p.disable_fpoptimizer }

Init ==
  /\ \E p \in CallSettings : Built(p, FALSE)
  /\ parser = NoParser
  /\ ev = IdleEval
  /\ \E names \in SeqsUpTo(Names, MaxConst), exprs \in SeqsUpTo(ExprTexts, MaxConst) :
       /\ call = EnterCall(names, exprs)
       /\ twin = EnterCall(names, exprs)

Advance(ok) ==
  /\ call' = ResolveStep(this, call, ok)
  /\ twin' = ResolveStep(Twin(this), twin, ok)
  /\ UNCHANGED <<params, haveJit, pc, this, warnings, parser, ev>>

\* lines 111-118
CheckLengthsStep == call.pc = "entry" /\ Advance(TRUE)

\* lines 120-123
NewExpressionStep == call.pc = "new" /\ Advance(TRUE)

\* lines 126-128
AddPreviousStep ==
  call.pc = "inject" /\ InnerLoopCond(call) /\ \E ok \in BOOLEAN : Advance(ok)

\* lines 131-135
ParseStep == call.pc = "inject" /\ ~InnerLoopCond(call) /\ Advance(TRUE)

\* line 137
EvalStep == call.pc = "eval" /\ Advance(TRUE)

\* lines 139-140
AddToTargetStep == call.pc = "add" /\ \E ok \in BOOLEAN : Advance(ok)

Next ==
  \/ CheckLengthsStep
  \/ NewExpressionStep
  \/ AddPreviousStep
  \/ ParseStep
  \/ EvalStep
  \/ AddToTargetStep

Spec == Init /\ [][Next]_vars

(* ---------------- properties ---------------- *)

\* the constants of entries 0..n-1 of the call st, in the order of definition
Prefix(st, n) == [m \in 1..n |-> <<st.constant_names[m], st.constant_values[m]>>]

\* the positions of the log of st that hold a call op made for entry i
Made(st, op, i) == { k \in 1..Len(st.log) : st.log[k].op = op /\ st.log[k].i = i }

\* C1: the temporary expression of constant i holds, when it is parsed and
\* ever after, exactly the constants (names[j], value of j) of all j < i in
\* increasing order of j, and while it is being filled a prefix of them, so
\* never names[i] or a later name; the calls made before each Parse are the
\* new expression followed by these i additions and nothing else; and the
\* value an entry was given when it was evaluated is the value it still has.
C1_TemporaryHoldsStrictPrefix ==
  /\ call.pc = "inject" =>
       /\ call.j <= call.i
       /\ call.expression.consts = Prefix(call, call.j)
  /\ call.pc \in {"eval", "add"} => call.expression.consts = Prefix(call, call.i)
  /\ \A k \in 1..Len(call.log) :
       call.log[k].op = "parse" =>
         LET i == call.log[k].i
         IN  /\ k > i
             /\ call.log[k - i - 1] = Event("new", i, "", 0)
             /\ \A m \in 1..i :
                  call.log[k - i - 1 + m] =
                    Event("addPrevious", i, call.constant_names[m], call.constant_values[m])
  /\ \A k \in 1..Len(call.log) :
       call.log[k].op = "eval" => call.constant_values[call.log[k].i + 1] = call.log[k].v

\* C1 witness: names a, b, c with expressions 2, a*3, a+b resolved to 2, 6, 8
C1_Witness ==
  /\ call.pc = "done"
  /\ call.constant_names = <<"a", "b", "c">>
  /\ call.constant_expressions = << <<"2">>, <<"a", "*", "3">>, <<"a", "+", "b">> >>
  /\ call.constant_values = <<2, 6, 8>>
  /\ Cardinality(Made(call, "addPrevious", 2)) = 2

\* C2 as stated: a constant reaches the caller's expression only once all
\* nconst entries have been evaluated, and a call that failed has left the
\* caller's expression without any constant.
C2_TargetOnlyAfterAllEntries ==
  /\ call.parser.consts # <<>> =>
       \A i \in 0..(call.nconst - 1) : Made(call, "eval", i) # {}
  /\ call.pc = "failed" => call.parser.consts = <<>>

\* C2 as amended: each constant is added to the caller's expression inside
\* the loop, by the call that directly follows its own evaluation, so in the
\* order of definition; the caller's expression holds the constants of the
\* entries before the current one, also when the call has failed at entry i.
C2_TargetFilledEntryByEntry ==
  /\ call.pc \in {"new", "inject", "eval", "add", "failed", "done"} =>
       call.parser.consts = Prefix(call, call.i)
  /\ \A k \in 1..Len(call.log) :
       call.log[k].op = "add" =>
         /\ k > 1
         /\ call.log[k - 1] = Event("eval", call.log[k].i, call.log[k].name, call.log[k].v)
  /\ \A k \in 1..Len(call.log) :
       (call.log[k].op = "eval" /\ k < Len(call.log)) => call.log[k + 1].op = "add"
  /\ call.pc = "done" => call.i = call.nconst

\* C2 witness: a call of three entries that failed at its third entry leaves
\* the first two constants in the caller's expression
C2_Witness ==
  /\ call.pc = "failed"
  /\ call.nconst = 3
  /\ call.i = 2
  /\ Len(call.parser.consts) = 2

\* C3: vectors of different lengths end the call with a fatal error at its
\* first step: no temporary expression is built, parsed or evaluated, no
\* value is stored and nothing is added to the caller's expression.
C3_LengthMismatchFailsFirst ==
  Len(call.constant_names) # Len(call.constant_expressions) =>
    /\ call.pc \in {"entry", "failed"}
    /\ call.pc = "failed" => call.at = "lengths"
    /\ call.log = <<>>
    /\ call.expression = NoParser
    /\ call.constant_values = <<>>
    /\ call.parser.consts = <<>>

\* C3 witness: a failed call with more names than expressions
C3_Witness ==
  /\ call.pc = "failed"
  /\ Len(call.constant_names) > Len(call.constant_expressions)
  /\ Len(call.constant_expressions) > 0

\* the text the error taxonomy gives for a code
TaxonomyText(code) ==
  CASE code = 1 -> "Division by zero"
    [] code = 2 -> "Square root of a negative value"
    [] code = 3 -> "Logarithm of negative value"
    [] code = 4 -> "Trigonometric error (asin or acos of illegal value)"
    [] code = 5 -> "Maximum recursion level reached"
    [] OTHER -> "Unknown"

\* C4: evaluate on a non-null expression returns the result when the error
\* code the library reports is 0; for any other code it returns NaN when
\* _fail_on_evalerror is false, and when it is true it fails without a value,
\* its message carrying the taxonomy text of the code (Unknown outside 1..5).
C4_EvaluateOutcome ==
  (~ev.null /\ ev.pc \in {"returned", "failed"}) =>
    /\ ev.nEval = 1
    /\ parser.evalError = 0 =>
         ev.pc = "returned" /\ ev.ret = Returned(Num(ev.result))
    /\ (parser.evalError # 0 /\ ~params.fail_on_evalerror) =>
         ev.pc = "returned" /\ ev.ret = Returned(_nan)
    /\ (parser.evalError # 0 /\ params.fail_on_evalerror) =>
         /\ ev.pc = "failed"
         /\ ev.ret = NoValue
         /\ ev.error[Len(ev.error)] = Lit(TaxonomyText(parser.evalError))

\* C4 witness: a fatal failure on the last code of the table
C4_Witness ==
  /\ ev.pc = "failed"
  /\ parser.evalError = 5

\* C5: evaluate on a null expression returns 0.0 whatever the parameters and
\* _fail_on_evalerror are, without calling Eval or EvalError and without a
\* failure.
C5_NullEvaluatesToZero ==
  (ev.null /\ ev.pc # "idle") =>
    /\ ev.pc = "returned"
    /\ ev.ret = Returned(Num(0))
    /\ ev.nEval = 0
    /\ ev.nEvalError = 0
    /\ ev.error = <<>>

\* C5 witness: a null expression evaluated by an object that fails on errors
C5_Witness ==
  /\ ev.null
  /\ ev.pc = "returned"
  /\ this._fail_on_evalerror
  /\ ev._func_params = 1

\* C6: once constructed, _enable_auto_optimize is enable_auto_optimize and
\* not disable_fpoptimizer, so it is false whenever disable_fpoptimizer is
\* set; setParserFeatureFlags gives an expression this very value.
C6_AutoOptimizeComputed ==
  pc # "new" =>
    /\ this._enable_auto_optimize =
         (params.enable_auto_optimize /\ ~params.disable_fpoptimizer)
    /\ params.disable_fpoptimizer => ~this._enable_auto_optimize
    /\ pc = "flagged" =>
         parser.ADAutoOptimize =
           (params.enable_auto_optimize /\ ~params.disable_fpoptimizer)

\* C6 witness: auto-optimize requested with the optimizer disabled, applied
\* to an expression that had the flag set
C6_Witness ==
  /\ pc = "flagged"
  /\ params.enable_auto_optimize
  /\ params.disable_fpoptimizer
  /\ ~parser.ADAutoOptimize

\* C7: in a build without JIT a requested enable_jit gives _enable_jit false
\* and exactly one warning, and the constructor completes; in every other
\* case there is no warning and _enable_jit is the requested value (false
\* when the parameter is not valid).
C7_JitFallback ==
  pc # "new" =>
    LET requested == params.jit_valid /\ params.enable_jit
    IN  IF ~haveJit /\ requested
        THEN ~this._enable_jit /\ Len(warnings) = 1 /\ warnings[1] = JitWarning
        ELSE this._enable_jit = requested /\ warnings = <<>>

\* C7 witness: JIT requested in a build without it, constructor done
C7_Witness ==
  /\ pc = "ready"
  /\ ~haveJit
  /\ params.jit_valid
  /\ params.enable_jit
  /\ Len(warnings) = 1

\* the constant whose AddConstant ended the call
Offending(st) ==
  IF st.at = "addPrevious" THEN st.constant_names[st.j + 1]
  ELSE st.constant_names[st.i + 1]

\* C8 as stated: when AddConstant rejects a constant, on the temporary
\* expression or on the caller's, the call ends with a fatal error whose
\* message contains the name of that constant.
C8_ReportNamesConstant ==
  (call.pc = "failed" /\ call.at \in {"addPrevious", "add"}) =>
    \E k \in 1..Len(call.error) : call.error[k] = Lit(Offending(call))

\* C9: when Parse fails on expressions[i] the call ends there with a fatal
\* error whose message holds the text of expressions[i] and the parser's
\* ErrorMsg; entry i is not evaluated, no value is stored for it or added to
\* the caller's expression, and no later entry is touched.
C9_ParseFailureEndsCall ==
  \A k \in 1..Len(call.log) :
    (call.log[k].op = "parse" /\ call.log[k].v >= 0) =>
      LET i == call.log[k].i
      IN  /\ k = Len(call.log)
          /\ call.pc = "failed"
          /\ call.at = "parse"
          /\ call.i = i
          /\ \E m \in 1..Len(call.error) : call.error[m] = call.constant_expressions[i + 1]
          /\ \E m \in 1..Len(call.error) :
               call.error[m] = Lit(ErrorMsg(Prefix(call, i), call.constant_expressions[i + 1]))
          /\ Made(call, "eval", i) = {}
          /\ Made(call, "add", i) = {}
          /\ Len(call.parser.consts) = i
          /\ \A n \in (i + 1)..call.nconst : call.constant_values[n] = 0
          /\ \A n \in 1..Len(call.log) : call.log[n].i <= i

\* C9 witness: the second of three entries does not parse at its first token
C9_Witness ==
  /\ call.pc = "failed"
  /\ call.at = "parse"
  /\ call.nconst = 3
  /\ call.i = 1
  /\ call.log[Len(call.log)].v = 0

\* C10: the call never fails because of an evaluation error, it stores and
\* hands on the value Eval returned whatever the error the expression then
\* remembers, and seen from outside it is the same call on an object with
\* the opposite _fail_on_evalerror.
C10_EvalErrorIgnored ==
  /\ call = twin
  /\ call.pc = "failed" => call.at \in {"lengths", "addPrevious", "parse", "add"}
  /\ call.pc = "add" =>
       /\ call.constant_values[call.i + 1] = Eval(call.expression).v
       /\ call.log[Len(call.log)].op = "eval"
  /\ \A i \in 0..(call.nconst - 1) :
       Made(call, "add", i) # {} => call.parser.consts[i + 1][2] = call.constant_values[i + 1]

\* C10 witness: a division by zero in a constant of an object that fails on
\* evaluation errors, its value 0 added to the caller's expression
C10_Witness ==
  /\ call.pc = "done"
  /\ this._fail_on_evalerror
  /\ call.nconst = 2
  /\ call.constant_expressions[2] = <<"1", "/", "0">>
  /\ Len(call.parser.consts) = 2

====
